---- MODULE Spec2Model ----
(***************************************************************************)
(* apple-reminders-mcp: the reminder resolution, mutation and              *)
(* serialization layer (Swift CLI helper over EventKit) and the tool layer *)
(* in front of it.                                                         *)
(*                                                                         *)
(* The store is a sequence of lists (EKCalendar), each a sequence of       *)
(* reminders (EKReminder) in store iteration order.  One action is one     *)
(* whole invocation of a command: request access, resolve, mutate the      *)
(* fetched object, save.  A command is a pure operator from the store and  *)
(* the environment to the new store and the outcome; the action applies    *)
(* it.                                                                     *)
(***************************************************************************)
EXTENDS Integers, Sequences, FiniteSets, TLC

VARIABLES store, env, last, nops, calls

vars == <<store, env, last, nops, calls>>

(* Number of invocations explored from an initial store. *)
MaxOps == 2

----------------------------------------------------------------------------
(* Swift optionals: nil is the empty tuple, a value v is <<v>>.            *)

None == <<>>

Some(v) == <<v>>

IsSome(o) == o # <<>>

Get(o) == o[1]

----------------------------------------------------------------------------
(* Dates.  The formatter's fixed format "yyyy-MM-dd HH:mm" maps a text to  *)
(* an instant (minutes, here a small integer) and back.                    *)

KnownDates == { <<"2024-03-15 09:00", 1>>, <<"2024-12-31 23:59", 2>> }

(* dateFormatter.date(from:) -- nil when the text is not in the format *)
dateFromString(s) ==
  IF \E p \in KnownDates : p[1] = s
  THEN Some((CHOOSE p \in KnownDates : p[1] = s)[2])
  ELSE None

(* dateFormatter.string(from:) *)
stringFromDate(d) == (CHOOSE p \in KnownDates : p[2] = d)[1]

(* parseDate falling back to a default date when the text does not parse *)
parseDate_defaultsDate(s) ==
  IF dateFromString(s) = None THEN Some(1) ELSE dateFromString(s)

(* parseDate: nil stands for throwing invalidDate *)
parseDate(s) == dateFromString(s)

(* dateToComponents: year, month, day, hour, minute of the instant *)
dateToComponents(d) == [ymdhm |-> d]

(* Calendar.current.date(from: components) *)
dateFromComponents(c) == c.ymdhm

----------------------------------------------------------------------------
(* String.lowercased() on the words the commands switch on *)
Lowercase ==
  { <<"Daily", "daily">>, <<"Weekly", "weekly">>, <<"Monthly", "monthly">>,
    <<"Yearly", "yearly">>, <<"Enter", "enter">>, <<"Leave", "leave">>,
    <<"Work", "work">> }

lowercased(w) ==
  IF \E p \in Lowercase : p[1] = w
  THEN (CHOOSE p \in Lowercase : p[1] = w)[2]
  ELSE w

----------------------------------------------------------------------------
(* Outcomes of an invocation.                                              *)
(*   success : {success: true, message}     (exit 0)                       *)
(*   nothing : {success: false, message}    (exit 0)                       *)
(*   value   : a domain value as JSON       (exit 0)                       *)
(*   error   : a thrown RemindersError      (non-zero exit)                *)

Success == [kind |-> "success", error |-> "", value |-> None]

Nothing == [kind |-> "nothing", error |-> "", value |-> None]

(* {success: true} with the computed part of its message *)
Message(m) == [kind |-> "success", error |-> "", value |-> Some(m)]

Value(v) == [kind |-> "value", error |-> "", value |-> Some(v)]

Error(e) == [kind |-> "error", error |-> e, value |-> None]

Result(s, o) == [store |-> s, out |-> o]

----------------------------------------------------------------------------
(* Store gateway and resolver (EventKitManager).                           *)

(* requestAccess that never refuses *)
requestAccess_alwaysGranted(e) == TRUE

(* requestAccess: granted or throws accessDenied *)
requestAccess(e) == e.access

(* getAllLists *)
getAllLists(s) == [i \in 1..Len(s) |-> s[i].title]

(* first(where:) over a sequence of indexes; 0 when there is none *)
FirstIndex(S) == IF S = {} THEN 0 ELSE CHOOSE i \in S : \A j \in S : i <= j

(* findList comparing names without regard to letter case *)
findList_caseInsensitive(s, name) ==
  FirstIndex({i \in 1..Len(s) : lowercased(s[i].title) = lowercased(name)})

(* findList: first list whose title equals name exactly; 0 = listNotFound *)
findList(s, name) ==
  FirstIndex({i \in 1..Len(s) : s[i].title = name})

(* fetchReminders: positions, in store order, of the reminders of list li *)
fetchReminders(s, li, includeCompleted) ==
  LET all == [i \in 1..Len(s[li].reminders) |-> i]
  IN IF includeCompleted
     THEN all
     ELSE SelectSeq(all, LAMBDA i : ~s[li].reminders[i].isCompleted)

(* findReminder returning the last reminder with the title *)
findReminder_lastMatch(s, e, listName, reminderName) ==
  LET li == findList(s, listName)
  IN IF li = 0 THEN [error |-> "ListNotFound", li |-> 0, ri |-> 0]
     ELSE IF ~e.fetch THEN [error |-> "FetchFailed", li |-> li, ri |-> 0]
     ELSE LET M == {k \in 1..Len(s[li].reminders) :
                      s[li].reminders[k].title = reminderName}
          IN IF M = {}
             THEN [error |-> "ReminderNotFound", li |-> li, ri |-> 0]
             ELSE [error |-> "", li |-> li,
                   ri |-> CHOOSE k \in M : \A j \in M : j <= k]

(* findReminder fetching with the default includeCompleted: false *)
findReminder_openOnly(s, e, listName, reminderName) ==
  LET li == findList(s, listName)
  IN IF li = 0 THEN [error |-> "ListNotFound", li |-> 0, ri |-> 0]
     ELSE IF ~e.fetch THEN [error |-> "FetchFailed", li |-> li, ri |-> 0]
     ELSE LET rs == fetchReminders(s, li, FALSE)
              ri == FirstIndex({rs[k] : k \in {k \in 1..Len(rs) :
                                   s[li].reminders[rs[k]].title = reminderName}})
          IN IF ri = 0
             THEN [error |-> "ReminderNotFound", li |-> li, ri |-> 0]
             ELSE [error |-> "", li |-> li, ri |-> ri]

(* findReminder: [error, li, ri]; error "" when a reminder is returned *)
findReminder(s, e, listName, reminderName) ==
  LET li == findList(s, listName)
  IN IF li = 0 THEN [error |-> "ListNotFound", li |-> 0, ri |-> 0]
     ELSE IF ~e.fetch THEN [error |-> "FetchFailed", li |-> li, ri |-> 0]
     ELSE LET rs == fetchReminders(s, li, TRUE)
              ri == FirstIndex({rs[k] : k \in {k \in 1..Len(rs) :
                                   s[li].reminders[rs[k]].title = reminderName}})
          IN IF ri = 0
             THEN [error |-> "ReminderNotFound", li |-> li, ri |-> 0]
             ELSE [error |-> "", li |-> li, ri |-> ri]

(* requestAccess followed by findReminder, as every command begins *)
resolve(s, e, listName, reminderName) ==
  IF ~requestAccess(e)
  THEN [error |-> "AccessDenied", li |-> 0, ri |-> 0]
  ELSE findReminder(s, e, listName, reminderName)

(* save adding the alarms of the saved copy to the alarms the store holds *)
save_mergesAlarms(s, e, li, ri, r) ==
  IF ~e.save THEN Result(s, Error("SaveFailed"))
  ELSE Result([s EXCEPT ![li].reminders[ri] =
                 [r EXCEPT !.alarms =
                    SelectSeq(s[li].reminders[ri].alarms,
                              LAMBDA a : \A k \in 1..Len(r.alarms) : r.alarms[k] # a)
                    \o r.alarms]],
              Success)

(* save(reminder): commits the fetched object back to its place *)
save(s, e, li, ri, r) ==
  IF ~e.save THEN Result(s, Error("SaveFailed"))
  ELSE Result([s EXCEPT ![li].reminders[ri] = r], Success)

(* save of a new EKReminder taking the place of one with the same title *)
saveNew_replacesSameTitle(s, e, li, r) ==
  IF ~e.save THEN Result(s, Error("SaveFailed"))
  ELSE LET M == {k \in 1..Len(s[li].reminders) : s[li].reminders[k].title = r.title}
       IN IF M = {}
          THEN Result([s EXCEPT ![li].reminders = Append(@, r)], Success)
          ELSE Result([s EXCEPT ![li].reminders[CHOOSE k \in M : TRUE] = r], Success)

(* save of a new EKReminder: it joins its calendar *)
saveNew(s, e, li, r) ==
  IF ~e.save THEN Result(s, Error("SaveFailed"))
  ELSE Result([s EXCEPT ![li].reminders = Append(@, r)], Success)

(* remove taking the last reminder of the list away, whichever was given *)
remove_last(s, e, li, ri) ==
  IF ~e.save THEN Result(s, Error("SaveFailed"))
  ELSE Result([s EXCEPT ![li].reminders = SubSeq(@, 1, Len(@) - 1)], Success)

(* remove(reminder) *)
remove(s, e, li, ri) ==
  IF ~e.save THEN Result(s, Error("SaveFailed"))
  ELSE Result([s EXCEPT ![li].reminders =
                 [k \in 1..(Len(@) - 1) |-> IF k < ri THEN @[k] ELSE @[k + 1]]],
              Success)

----------------------------------------------------------------------------
(* EventKit objects as the commands build and read them.                   *)

(* EKAlarm(absoluteDate:) *)
TimeAlarm(d) ==
  [absoluteDate |-> Some(d), structuredLocation |-> None, proximity |-> "none"]

(* EKStructuredLocation(title:) with geoLocation and radius set *)
StructuredLocation(title, latitude, longitude, radius) ==
  [title |-> title,
   geoLocation |-> Some([latitude |-> latitude, longitude |-> longitude]),
   radius |-> radius]

(* EKAlarm() with structuredLocation and proximity set *)
LocationAlarm(loc, proximity) ==
  [absoluteDate |-> None, structuredLocation |-> Some(loc), proximity |-> proximity]

(* EKRecurrenceEnd(occurrenceCount:) *)
EndAfterCount(n) == [endDate |-> None, occurrenceCount |-> n]

(* EKRecurrenceEnd(end:) *)
EndOnDate(d) == [endDate |-> Some(d), occurrenceCount |-> 0]

(* EKRecurrenceRule(recurrenceWith:interval:end:) *)
RecurrenceRule(freq, interval, end) ==
  [frequency |-> freq, interval |-> interval, recurrenceEnd |-> end]

(* EKReminder(eventStore:) with calendar, title, notes and due date set *)
NewReminder(title, notes, due) ==
  [title |-> title, notes |-> notes, isCompleted |-> FALSE,
   dueDateComponents |-> due, priority |-> 0, flagged |-> FALSE,
   alarms |-> <<>>, recurrenceRules |-> <<>>]

----------------------------------------------------------------------------
(* Serializer (EventKitManager.toOutput, ruleToInfo).                      *)

(* ruleToInfo leaving the occurrence count out *)
ruleToInfo_noEndCount(rule) ==
  LET end == rule.recurrenceEnd
      endDate == IF IsSome(end) /\ IsSome(Get(end).endDate)
                 THEN Some(stringFromDate(Get(Get(end).endDate)))
                 ELSE None
  IN [frequency |-> rule.frequency, interval |-> rule.interval,
      endDate |-> endDate, endCount |-> None, daysOfWeek |-> None]

ruleToInfo(rule) ==
  LET freq == IF rule.frequency \in {"daily", "weekly", "monthly", "yearly"}
              THEN rule.frequency ELSE "unknown"
      end == rule.recurrenceEnd
      endDate == IF IsSome(end) /\ IsSome(Get(end).endDate)
                 THEN Some(stringFromDate(Get(Get(end).endDate)))
                 ELSE None
      endCount == IF IsSome(end) /\ Get(end).occurrenceCount > 0
                  THEN Some(Get(end).occurrenceCount)
                  ELSE None
  IN [frequency |-> freq, interval |-> rule.interval,
      endDate |-> endDate, endCount |-> endCount, daysOfWeek |-> None]

(* the first alarm with a structured location that has a geoLocation *)
FirstLocationAlarm(alarms) ==
  FirstIndex({k \in 1..Len(alarms) :
                /\ IsSome(alarms[k].structuredLocation)
                /\ IsSome(Get(alarms[k].structuredLocation).geoLocation)})

(* toOutput serializing the flag of the stored reminder *)
toOutput_readsFlag(r) ==
  LET dueDateStr == IF IsSome(r.dueDateComponents)
                    THEN Some(stringFromDate(
                                dateFromComponents(Get(r.dueDateComponents))))
                    ELSE None
      hasRecurrence == r.recurrenceRules # <<>>
      recurrenceInfo == IF hasRecurrence
                        THEN Some(ruleToInfo(Head(r.recurrenceRules)))
                        ELSE None
      k == FirstLocationAlarm(r.alarms)
      hasLocation == k # 0
      locationInfo ==
        IF k = 0 THEN None
        ELSE LET a == r.alarms[k]
                 loc == Get(a.structuredLocation)
                 geo == Get(loc.geoLocation)
             IN Some([title |-> loc.title,
                      latitude |-> geo.latitude,
                      longitude |-> geo.longitude,
                      radius |-> loc.radius,
                      proximity |-> IF a.proximity \in {"enter", "leave"}
                                    THEN a.proximity ELSE "none"])
  IN [title |-> r.title, body |-> r.notes, completed |-> r.isCompleted,
      dueDate |-> dueDateStr, priority |-> r.priority, flagged |-> r.flagged,
      hasRecurrence |-> hasRecurrence, recurrence |-> recurrenceInfo,
      hasLocation |-> hasLocation, location |-> locationInfo]

(* toOutput encoding the last rule of the reminder *)
toOutput_lastRule(r) ==
  LET dueDateStr == IF IsSome(r.dueDateComponents)
                    THEN Some(stringFromDate(
                                dateFromComponents(Get(r.dueDateComponents))))
                    ELSE None
      hasRecurrence == r.recurrenceRules # <<>>
      recurrenceInfo == IF hasRecurrence
                        THEN Some(ruleToInfo(r.recurrenceRules[Len(r.recurrenceRules)]))
                        ELSE None
      k == FirstLocationAlarm(r.alarms)
      hasLocation == k # 0
      locationInfo ==
        IF k = 0 THEN None
        ELSE LET a == r.alarms[k]
                 loc == Get(a.structuredLocation)
                 geo == Get(loc.geoLocation)
             IN Some([title |-> loc.title,
                      latitude |-> geo.latitude,
                      longitude |-> geo.longitude,
                      radius |-> loc.radius,
                      proximity |-> IF a.proximity \in {"enter", "leave"}
                                    THEN a.proximity ELSE "none"])
  IN [title |-> r.title, body |-> r.notes, completed |-> r.isCompleted,
      dueDate |-> dueDateStr, priority |-> r.priority, flagged |-> FALSE,
      hasRecurrence |-> hasRecurrence, recurrence |-> recurrenceInfo,
      hasLocation |-> hasLocation, location |-> locationInfo]

toOutput(r) ==
  LET dueDateStr == IF IsSome(r.dueDateComponents)
                    THEN Some(stringFromDate(
                                dateFromComponents(Get(r.dueDateComponents))))
                    ELSE None
      hasRecurrence == r.recurrenceRules # <<>>
      recurrenceInfo == IF hasRecurrence
                        THEN Some(ruleToInfo(Head(r.recurrenceRules)))
                        ELSE None
      k == FirstLocationAlarm(r.alarms)
      hasLocation == k # 0
      locationInfo ==
        IF k = 0 THEN None
        ELSE LET a == r.alarms[k]
                 loc == Get(a.structuredLocation)
                 geo == Get(loc.geoLocation)
             IN Some([title |-> loc.title,
                      latitude |-> geo.latitude,
                      longitude |-> geo.longitude,
                      radius |-> loc.radius,
                      proximity |-> IF a.proximity \in {"enter", "leave"}
                                    THEN a.proximity ELSE "none"])
  IN [title |-> r.title, body |-> r.notes, completed |-> r.isCompleted,
      dueDate |-> dueDateStr, priority |-> r.priority, flagged |-> FALSE,
      hasRecurrence |-> hasRecurrence, recurrence |-> recurrenceInfo,
      hasLocation |-> hasLocation, location |-> locationInfo]

----------------------------------------------------------------------------
(* Commands of the Swift helper.  Each takes the store s and environment   *)
(* e and returns Result(store after, outcome).                             *)

(* add *)
AddReminder_run(s, e, list, title, body, dueDate) ==
  IF ~requestAccess(e) THEN Result(s, Error("AccessDenied"))
  ELSE LET li == findList(s, list)
       IN IF li = 0 THEN Result(s, Error("ListNotFound"))
          ELSE IF IsSome(dueDate) /\ ~IsSome(parseDate(Get(dueDate)))
          THEN Result(s, Error("InvalidDate"))
          ELSE LET due == IF IsSome(dueDate)
                          THEN Some(dateToComponents(Get(parseDate(Get(dueDate)))))
                          ELSE None
               IN saveNew(s, e, li, NewReminder(title, body, due))

(* complete flipping isCompleted instead of setting it *)
CompleteReminder_run_toggles(s, e, list, reminder) ==
  LET f == resolve(s, e, list, reminder)
  IN IF f.error # "" THEN Result(s, Error(f.error))
     ELSE LET target == s[f.li].reminders[f.ri]
          IN save(s, e, f.li, f.ri,
                  [target EXCEPT !.isCompleted = ~target.isCompleted])

(* complete *)
CompleteReminder_run(s, e, list, reminder) ==
  LET f == resolve(s, e, list, reminder)
  IN IF f.error # "" THEN Result(s, Error(f.error))
     ELSE LET target == s[f.li].reminders[f.ri]
          IN save(s, e, f.li, f.ri, [target EXCEPT !.isCompleted = TRUE])

(* delete *)
DeleteReminder_run(s, e, list, reminder) ==
  LET f == resolve(s, e, list, reminder)
  IN IF f.error # "" THEN Result(s, Error(f.error))
     ELSE remove(s, e, f.li, f.ri)

(* update without the early return for "no field given" *)
UpdateReminder_run_noGuard(s, e, list, reminder, newName, newBody, appendBody, newDueDate) ==
  LET f == resolve(s, e, list, reminder)
  IN IF f.error # "" THEN Result(s, Error(f.error))
     ELSE LET target == s[f.li].reminders[f.ri]
              t1 == IF IsSome(newName)
                    THEN [target EXCEPT !.title = Get(newName)] ELSE target
              t2 == IF IsSome(newBody)
                    THEN [t1 EXCEPT !.notes = newBody] ELSE t1
              t3 == IF IsSome(appendBody)
                    THEN [t2 EXCEPT !.notes =
                            Some((IF IsSome(t2.notes) THEN Get(t2.notes) ELSE "")
                                 \o "\n" \o Get(appendBody))]
                    ELSE t2
          IN IF IsSome(newDueDate) /\ ~IsSome(parseDate(Get(newDueDate)))
             THEN Result(s, Error("InvalidDate"))
             ELSE LET t4 == IF IsSome(newDueDate)
                            THEN [t3 EXCEPT !.dueDateComponents =
                                    Some(dateToComponents(
                                           Get(parseDate(Get(newDueDate)))))]
                            ELSE t3
                  IN save(s, e, f.li, f.ri, t4)

(* update whose appendBody replaces the notes *)
UpdateReminder_run_appendOverwrites(s, e, list, reminder, newName, newBody, appendBody, newDueDate) ==
  IF ~(IsSome(newName) \/ IsSome(newBody) \/ IsSome(appendBody) \/ IsSome(newDueDate))
  THEN Result(s, Nothing)
  ELSE
  LET f == resolve(s, e, list, reminder)
  IN IF f.error # "" THEN Result(s, Error(f.error))
     ELSE LET target == s[f.li].reminders[f.ri]
              t1 == IF IsSome(newName)
                    THEN [target EXCEPT !.title = Get(newName)] ELSE target
              t2 == IF IsSome(newBody)
                    THEN [t1 EXCEPT !.notes = newBody] ELSE t1
              t3 == IF IsSome(appendBody)
                    THEN [t2 EXCEPT !.notes = appendBody]
                    ELSE t2
          IN IF IsSome(newDueDate) /\ ~IsSome(parseDate(Get(newDueDate)))
             THEN Result(s, Error("InvalidDate"))
             ELSE LET t4 == IF IsSome(newDueDate)
                            THEN [t3 EXCEPT !.dueDateComponents =
                                    Some(dateToComponents(
                                           Get(parseDate(Get(newDueDate)))))]
                            ELSE t3
                  IN save(s, e, f.li, f.ri, t4)

(* update committing the fields set so far when the date does not parse *)
UpdateReminder_run_savesBeforeParse(s, e, list, reminder, newName, newBody, appendBody, newDueDate) ==
  IF ~(IsSome(newName) \/ IsSome(newBody) \/ IsSome(appendBody) \/ IsSome(newDueDate))
  THEN Result(s, Nothing)
  ELSE
  LET f == resolve(s, e, list, reminder)
  IN IF f.error # "" THEN Result(s, Error(f.error))
     ELSE LET target == s[f.li].reminders[f.ri]
              t1 == IF IsSome(newName)
                    THEN [target EXCEPT !.title = Get(newName)] ELSE target
              t2 == IF IsSome(newBody)
                    THEN [t1 EXCEPT !.notes = newBody] ELSE t1
              t3 == IF IsSome(appendBody)
                    THEN [t2 EXCEPT !.notes =
                            Some((IF IsSome(t2.notes) THEN Get(t2.notes) ELSE "")
                                 \o "\n" \o Get(appendBody))]
                    ELSE t2
          IN IF IsSome(newDueDate) /\ ~IsSome(parseDate(Get(newDueDate)))
             THEN Result(save(s, e, f.li, f.ri, t3).store, Error("InvalidDate"))
             ELSE LET t4 == IF IsSome(newDueDate)
                            THEN [t3 EXCEPT !.dueDateComponents =
                                    Some(dateToComponents(
                                           Get(parseDate(Get(newDueDate)))))]
                            ELSE t3
                  IN save(s, e, f.li, f.ri, t4)

(* update *)
UpdateReminder_run(s, e, list, reminder, newName, newBody, appendBody, newDueDate) ==
  IF ~(IsSome(newName) \/ IsSome(newBody) \/ IsSome(appendBody) \/ IsSome(newDueDate))
  THEN Result(s, Nothing)
  ELSE
  LET f == resolve(s, e, list, reminder)
  IN IF f.error # "" THEN Result(s, Error(f.error))
     ELSE LET target == s[f.li].reminders[f.ri]
              t1 == IF IsSome(newName)
                    THEN [target EXCEPT !.title = Get(newName)] ELSE target
              t2 == IF IsSome(newBody)
                    THEN [t1 EXCEPT !.notes = newBody] ELSE t1
              t3 == IF IsSome(appendBody)
                    THEN [t2 EXCEPT !.notes =
                            Some((IF IsSome(t2.notes) THEN Get(t2.notes) ELSE "")
                                 \o "\n" \o Get(appendBody))]
                    ELSE t2
          IN IF IsSome(newDueDate) /\ ~IsSome(parseDate(Get(newDueDate)))
             THEN Result(s, Error("InvalidDate"))
             ELSE LET t4 == IF IsSome(newDueDate)
                            THEN [t3 EXCEPT !.dueDateComponents =
                                    Some(dateToComponents(
                                           Get(parseDate(Get(newDueDate)))))]
                            ELSE t3
                  IN save(s, e, f.li, f.ri, t4)

(* set-priority *)
(* the label with the bounds of the buckets one too low *)
SetPriority_label_offByOne(priority) ==
  IF priority = 0 THEN "none"
  ELSE IF priority < 3 THEN "high"
  ELSE IF priority < 6 THEN "medium" ELSE "low"

(* the label of the message: none, high, medium, low for the source's      *)
(* Japanese labels                                                         *)
SetPriority_label(priority) ==
  IF priority = 0 THEN "none"
  ELSE IF priority <= 3 THEN "high"
  ELSE IF priority <= 6 THEN "medium" ELSE "low"

SetPriority_run(s, e, list, reminder, priority) ==
  LET f == resolve(s, e, list, reminder)
  IN IF f.error # "" THEN Result(s, Error(f.error))
     ELSE LET target == s[f.li].reminders[f.ri]
              saved == save(s, e, f.li, f.ri, [target EXCEPT !.priority = priority])
          IN IF saved.out # Success THEN saved
             ELSE Result(saved.store, Message(SetPriority_label(priority)))

(* set-remind-date adding the alarm without removing the old ones *)
SetRemindDate_run_keepsAlarms(s, e, list, reminder, date) ==
  LET f == resolve(s, e, list, reminder)
  IN IF f.error # "" THEN Result(s, Error(f.error))
     ELSE IF ~IsSome(parseDate(date)) THEN Result(s, Error("InvalidDate"))
     ELSE LET target == s[f.li].reminders[f.ri]
              alarm == TimeAlarm(Get(parseDate(date)))
          IN save(s, e, f.li, f.ri,
                  [target EXCEPT !.alarms = Append(@, alarm)])

(* set-remind-date moving the due date to the date of the alarm as well *)
SetRemindDate_run_setsDueDate(s, e, list, reminder, date) ==
  LET f == resolve(s, e, list, reminder)
  IN IF f.error # "" THEN Result(s, Error(f.error))
     ELSE IF ~IsSome(parseDate(date)) THEN Result(s, Error("InvalidDate"))
     ELSE LET target == s[f.li].reminders[f.ri]
              alarm == TimeAlarm(Get(parseDate(date)))
              kept == SelectSeq(target.alarms,
                                LAMBDA a : ~IsSome(a.absoluteDate))
          IN save(s, e, f.li, f.ri,
                  [target EXCEPT !.alarms = Append(kept, alarm),
                                  !.dueDateComponents =
                                    Some(dateToComponents(Get(parseDate(date))))])

(* set-remind-date *)
SetRemindDate_run(s, e, list, reminder, date) ==
  LET f == resolve(s, e, list, reminder)
  IN IF f.error # "" THEN Result(s, Error(f.error))
     ELSE IF ~IsSome(parseDate(date)) THEN Result(s, Error("InvalidDate"))
     ELSE LET target == s[f.li].reminders[f.ri]
              alarm == TimeAlarm(Get(parseDate(date)))
              kept == SelectSeq(target.alarms,
                                LAMBDA a : ~IsSome(a.absoluteDate))
          IN save(s, e, f.li, f.ri,
                  [target EXCEPT !.alarms = Append(kept, alarm)])

(* get-recurrence *)
GetRecurrence_run(s, e, list, reminder) ==
  LET f == resolve(s, e, list, reminder)
  IN IF f.error # "" THEN Result(s, Error(f.error))
     ELSE LET output == toOutput(s[f.li].reminders[f.ri])
          IN IF IsSome(output.recurrence)
             THEN Result(s, Value(Get(output.recurrence)))
             ELSE Result(s, Success)

(* set-recurrence adding the rule without removing the old ones *)
SetRecurrence_run_keepsRules(s, e, list, reminder, frequency, interval, endCount, endDate) ==
  LET f == resolve(s, e, list, reminder)
  IN IF f.error # "" THEN Result(s, Error(f.error))
     ELSE IF lowercased(frequency) \notin {"daily", "weekly", "monthly", "yearly"}
     THEN Result(s, Nothing)
     ELSE IF ~IsSome(endCount) /\ IsSome(endDate) /\ ~IsSome(parseDate(Get(endDate)))
     THEN Result(s, Error("InvalidDate"))
     ELSE LET target == s[f.li].reminders[f.ri]
              freq == lowercased(frequency)
              end == IF IsSome(endCount) THEN Some(EndAfterCount(Get(endCount)))
                     ELSE IF IsSome(endDate)
                     THEN Some(EndOnDate(Get(parseDate(Get(endDate)))))
                     ELSE None
              rule == RecurrenceRule(freq, interval, end)
          IN save(s, e, f.li, f.ri,
                  [target EXCEPT !.recurrenceRules = Append(@, rule)])

(* set-recurrence *)
SetRecurrence_run(s, e, list, reminder, frequency, interval, endCount, endDate) ==
  LET f == resolve(s, e, list, reminder)
  IN IF f.error # "" THEN Result(s, Error(f.error))
     ELSE IF lowercased(frequency) \notin {"daily", "weekly", "monthly", "yearly"}
     THEN Result(s, Nothing)
     ELSE IF ~IsSome(endCount) /\ IsSome(endDate) /\ ~IsSome(parseDate(Get(endDate)))
     THEN Result(s, Error("InvalidDate"))
     ELSE LET target == s[f.li].reminders[f.ri]
              freq == lowercased(frequency)
              end == IF IsSome(endCount) THEN Some(EndAfterCount(Get(endCount)))
                     ELSE IF IsSome(endDate)
                     THEN Some(EndOnDate(Get(parseDate(Get(endDate)))))
                     ELSE None
              rule == RecurrenceRule(freq, interval, end)
          IN save(s, e, f.li, f.ri,
                  [target EXCEPT !.recurrenceRules = <<rule>>])

(* clear-recurrence removing the alarms along with the rules *)
ClearRecurrence_run_clearsAlarms(s, e, list, reminder) ==
  LET f == resolve(s, e, list, reminder)
  IN IF f.error # "" THEN Result(s, Error(f.error))
     ELSE LET target == s[f.li].reminders[f.ri]
          IN save(s, e, f.li, f.ri,
                  [target EXCEPT !.recurrenceRules = <<>>, !.alarms = <<>>])

(* clear-recurrence *)
ClearRecurrence_run(s, e, list, reminder) ==
  LET f == resolve(s, e, list, reminder)
  IN IF f.error # "" THEN Result(s, Error(f.error))
     ELSE LET target == s[f.li].reminders[f.ri]
          IN save(s, e, f.li, f.ri, [target EXCEPT !.recurrenceRules = <<>>])

(* get-location *)
GetLocation_run(s, e, list, reminder) ==
  LET f == resolve(s, e, list, reminder)
  IN IF f.error # "" THEN Result(s, Error(f.error))
     ELSE LET output == toOutput(s[f.li].reminders[f.ri])
          IN IF IsSome(output.location)
             THEN Result(s, Value(Get(output.location)))
             ELSE Result(s, Success)

(* set-location that installs every alarm with proximity enter *)
SetLocation_run_alwaysEnter(s, e, list, reminder, title, latitude, longitude, radius, proximity) ==
  LET f == resolve(s, e, list, reminder)
  IN IF f.error # "" THEN Result(s, Error(f.error))
     ELSE IF lowercased(proximity) \notin {"enter", "leave"}
     THEN Result(s, Nothing)
     ELSE LET target == s[f.li].reminders[f.ri]
              kept == SelectSeq(target.alarms,
                                LAMBDA a : ~IsSome(a.structuredLocation))
              location == StructuredLocation(title, latitude, longitude, radius)
              alarm == LocationAlarm(location, "enter")
          IN save(s, e, f.li, f.ri,
                  [target EXCEPT !.alarms = Append(kept, alarm)])

(* set-location adding the alarm without removing the old ones *)
SetLocation_run_keepsAlarms(s, e, list, reminder, title, latitude, longitude, radius, proximity) ==
  LET f == resolve(s, e, list, reminder)
  IN IF f.error # "" THEN Result(s, Error(f.error))
     ELSE IF lowercased(proximity) \notin {"enter", "leave"}
     THEN Result(s, Nothing)
     ELSE LET target == s[f.li].reminders[f.ri]
              location == StructuredLocation(title, latitude, longitude, radius)
              alarm == LocationAlarm(location, lowercased(proximity))
          IN save(s, e, f.li, f.ri,
                  [target EXCEPT !.alarms = Append(@, alarm)])

(* set-location *)
SetLocation_run(s, e, list, reminder, title, latitude, longitude, radius, proximity) ==
  LET f == resolve(s, e, list, reminder)
  IN IF f.error # "" THEN Result(s, Error(f.error))
     ELSE IF lowercased(proximity) \notin {"enter", "leave"}
     THEN Result(s, Nothing)
     ELSE LET target == s[f.li].reminders[f.ri]
              kept == SelectSeq(target.alarms,
                                LAMBDA a : ~IsSome(a.structuredLocation))
              location == StructuredLocation(title, latitude, longitude, radius)
              alarm == LocationAlarm(location, lowercased(proximity))
          IN save(s, e, f.li, f.ri,
                  [target EXCEPT !.alarms = Append(kept, alarm)])

(* clear-location removing every alarm, whatever its kind *)
ClearLocation_run_clearsAll(s, e, list, reminder) ==
  LET f == resolve(s, e, list, reminder)
  IN IF f.error # "" THEN Result(s, Error(f.error))
     ELSE LET target == s[f.li].reminders[f.ri]
          IN save(s, e, f.li, f.ri, [target EXCEPT !.alarms = <<>>])

(* clear-location *)
ClearLocation_run(s, e, list, reminder) ==
  LET f == resolve(s, e, list, reminder)
  IN IF f.error # "" THEN Result(s, Error(f.error))
     ELSE LET target == s[f.li].reminders[f.ri]
              kept == SelectSeq(target.alarms,
                                LAMBDA a : ~IsSome(a.structuredLocation))
          IN save(s, e, f.li, f.ri, [target EXCEPT !.alarms = kept])

(* list-lists *)
ListLists_run(s, e) ==
  IF ~requestAccess(e) THEN Result(s, Error("AccessDenied"))
  ELSE Result(s, Value(getAllLists(s)))

(* get-reminders *)
GetReminders_run(s, e, list, includeCompleted) ==
  IF ~requestAccess(e) THEN Result(s, Error("AccessDenied"))
  ELSE LET li == findList(s, list)
       IN IF li = 0 THEN Result(s, Error("ListNotFound"))
          ELSE IF ~e.fetch THEN Result(s, Error("FetchFailed"))
          ELSE LET rs == fetchReminders(s, li, includeCompleted)
               IN Result(s, Value([k \in 1..Len(rs) |->
                                     toOutput(s[li].reminders[rs[k]])]))

----------------------------------------------------------------------------
(* Tool layer (MCP server) in front of the helper.                         *)

(* JavaScript truthiness of an optional string argument *)
Truthy(o) == IsSome(o) /\ Get(o) # ""

(* update_reminder: passes on only the truthy fields *)
update_reminder(s, e, listName, reminderName, newName, newBody, appendBody, newDueDate) ==
  UpdateReminder_run(s, e, listName, reminderName,
                     IF Truthy(newName) THEN newName ELSE None,
                     IF Truthy(newBody) THEN newBody ELSE None,
                     IF Truthy(appendBody) THEN appendBody ELSE None,
                     IF Truthy(newDueDate) THEN newDueDate ELSE None)

(* set_priority whose schema lets every number through *)
set_priority_noRange(s, e, listName, reminderName, priority) ==
  SetPriority_run(s, e, listName, reminderName, priority)

(* set_priority: the schema admits a priority from 0 to 9, the handler     *)
(* runs the helper with it                                                 *)
set_priority(s, e, listName, reminderName, priority) ==
  IF ~(priority >= 0 /\ priority <= 9)
  THEN Result(s, Error("InvalidArguments"))
  ELSE SetPriority_run(s, e, listName, reminderName, priority)

(* set_flag: the scripting backend, "first reminder whose name is ..." of  *)
(* list listName; no access request, no save through the helper           *)
set_flag(s, e, listName, reminderName, flagged) ==
  LET li == findList(s, listName)
      ri == IF li = 0 THEN 0
            ELSE FirstIndex({k \in 1..Len(s[li].reminders) :
                               s[li].reminders[k].title = reminderName})
  IN IF li = 0 \/ ri = 0
     THEN Result(s, Error("ScriptError"))
     ELSE Result([s EXCEPT ![li].reminders[ri].flagged = flagged], Success)

(* The script-only server (src/index.ts): text printed by osascript.       *)

(* the characters of a reminder name *)
Chars(name) ==
  CASE name = "a" -> <<"a">>
    [] name = "b" -> <<"b">>
    [] name = "a, b" -> <<"a", ",", " ", "b">>
    [] OTHER -> <<name>>

(* osascript prints a list of names separated by ", " *)
RECURSIVE printNames(_)
printNames(names) ==
  IF names = <<>> THEN <<>>
  ELSE IF Len(names) = 1 THEN Chars(names[1])
  ELSE Chars(Head(names)) \o <<",", " ">> \o printNames(Tail(names))

(* text.split(", "), piece being the part read since the last separator *)
RECURSIVE splitCommaSpace(_, _)
splitCommaSpace(text, piece) ==
  IF text = <<>> THEN <<piece>>
  ELSE IF Len(text) >= 2 /\ text[1] = "," /\ text[2] = " "
  THEN <<piece>> \o splitCommaSpace(SubSeq(text, 3, Len(text)), <<>>)
  ELSE splitCommaSpace(Tail(text), Append(piece, Head(text)))

(* set_priority of the script-only server: the label of its message *)
set_priority_label(priority) ==
  IF priority = 0 THEN "none"
  ELSE IF priority <= 3 THEN "high"
  ELSE IF priority <= 6 THEN "medium" ELSE "low"

(* the detailed script: one record per reminder of the list and filter *)
detailedScript(s, li, includeCompleted) ==
  LET rs == fetchReminders(s, li, includeCompleted)
  IN [k \in 1..Len(rs) |->
        LET r == s[li].reminders[rs[k]]
        IN [name |-> r.title, body |-> r.notes, completed |-> r.isCompleted,
            dueDate |-> r.dueDateComponents]]

(* the simple script: "get name of every reminder", as printed *)
simpleScript(s, li, includeCompleted) ==
  LET rs == fetchReminders(s, li, includeCompleted)
  IN printNames([k \in 1..Len(rs) |-> s[li].reminders[rs[k]].title])

(* get_reminders of the script-only server: the detailed script and, when  *)
(* it throws (detailFails), the names alone for the whole call             *)
get_reminders(s, listName, includeCompleted, detailFails) ==
  LET li == findList(s, listName)
  IN IF li = 0 THEN Error("ScriptError")
     ELSE IF ~detailFails
     THEN [kind |-> "detailed", error |-> "",
           value |-> Some(detailedScript(s, li, includeCompleted))]
     ELSE LET result == simpleScript(s, li, includeCompleted)
              reminders == IF result # <<>> THEN splitCommaSpace(result, <<>>)
                           ELSE <<>>
          IN [kind |-> "names", error |-> "", value |-> Some(reminders)]

----------------------------------------------------------------------------
(* Inputs of the invocations.                                              *)

ListNames == {"Work", "work"}

Titles == {"a", "b"}

(* list and reminder names the targeted commands are invoked with *)
Targets == { <<"Work", "a">>, <<"Work", "b">>, <<"work", "b">> }

DateTexts == {"2024-03-15 09:00", "2024-12-31 23:59", "tomorrow"}

Priorities == {0, 7}

(* priorities asked of the set_priority tool *)
PrioritiesAsked == Priorities \cup {-1, 12}

Places ==
  { [title |-> "Office", latitude |-> 35, longitude |-> 139, radius |-> 50],
    [title |-> "Home", latitude |-> 34, longitude |-> 135, radius |-> 100] }

(* place and proximity of set-location *)
LocationArgs ==
  { [place |-> p, proximity |-> "enter"] : p \in Places }
  \cup
  { [place |-> CHOOSE p \in Places : p.title = "Office", proximity |-> x] :
      x \in {"Leave", "nearby"} }
  \cup
  { [place |-> [title |-> "Office", latitude |-> 35, longitude |-> 139,
                radius |-> 0],
     proximity |-> "enter"] }

(* body, dueDate of add *)
AddArgs ==
  { [body |-> None, dueDate |-> None],
    [body |-> Some("x"), dueDate |-> Some("2024-03-15 09:00")],
    [body |-> Some("x"), dueDate |-> Some("tomorrow")] }

UpdateArg(n, b, a, d) ==
  [newName |-> n, newBody |-> b, appendBody |-> a, newDueDate |-> d]

(* newName, newBody, appendBody, newDueDate of update_reminder *)
UpdateArgs ==
  { UpdateArg(None, None, None, None),
    UpdateArg(Some(""), None, None, None),
    UpdateArg(Some("b"), None, None, None),
    UpdateArg(Some("b"), Some(""), None, None),
    UpdateArg(None, Some("x"), None, None),
    UpdateArg(None, None, Some("y"), None),
    UpdateArg(None, None, None, Some("2024-12-31 23:59")),
    UpdateArg(None, None, None, Some("tomorrow")),
    UpdateArg(Some("b"), None, None, Some("tomorrow")),
    UpdateArg(Some("b"), Some("x"), Some("y"), Some("2024-12-31 23:59")) }

RecurrenceArg(f, i, c, d) ==
  [frequency |-> f, interval |-> i, endCount |-> c, endDate |-> d]

(* frequency, interval, endCount, endDate of set-recurrence *)
RecurrenceArgs ==
  { RecurrenceArg(f, 2, Some(5), None) :
      f \in {"daily", "weekly", "monthly", "yearly"} }
  \cup
  { RecurrenceArg("weekly", 1, None, None),
    RecurrenceArg("Weekly", 2, Some(3), Some("2024-03-15 09:00")),
    RecurrenceArg("monthly", 1, None, Some("2024-03-15 09:00")),
    RecurrenceArg("monthly", 1, None, Some("tomorrow")),
    RecurrenceArg("weekly", 2, Some(3), Some("tomorrow")),
    RecurrenceArg("daily", 0, None, None),
    RecurrenceArg("daily", 1, Some(0), None),
    RecurrenceArg("hourly", 1, None, None) }

----------------------------------------------------------------------------
(* Stores the helper can be started on.  The store belongs to the system:  *)
(* other applications may have left several alarms or rules on a reminder, *)
(* several reminders with one title, several lists with one name.          *)

Plain(title) == NewReminder(title, None, None)

Messy ==
  [title |-> "a", notes |-> Some("x"), isCompleted |-> TRUE,
   dueDateComponents |-> Some(dateToComponents(1)), priority |-> 5,
   flagged |-> TRUE,
   alarms |-> << TimeAlarm(1),
                 [absoluteDate |-> None,
                  structuredLocation |->
                    Some([title |-> "Gym", geoLocation |-> None, radius |-> 0]),
                  proximity |-> "enter"],
                 LocationAlarm(StructuredLocation("Office", 35, 139, 50), "enter"),
                 TimeAlarm(2) >>,
   recurrenceRules |-> << RecurrenceRule("daily", 1, None),
                          RecurrenceRule("weekly", 2, Some(EndOnDate(2))) >>]

Tidy ==
  [title |-> "b", notes |-> None, isCompleted |-> FALSE,
   dueDateComponents |-> None, priority |-> 0, flagged |-> FALSE,
   alarms |-> << LocationAlarm(StructuredLocation("Home", 34, 135, 100), "leave"),
                 TimeAlarm(1) >>,
   recurrenceRules |-> << RecurrenceRule("monthly", 1, Some(EndAfterCount(3))) >>]

List(title, reminders) == [title |-> title, reminders |-> reminders]

InitStores ==
  { << List("Work", <<Messy, Plain("a"), Tidy>>), List("Work", <<Plain("a")>>) >>,
    << List("work", <<Plain("b"), Plain("a, b")>>),
       List("Work", <<Tidy>>) >>,
    << List("Work", <<>>) >> }

(* The environment of an invocation: whether access is granted, whether    *)
(* the store answers the fetch, whether it accepts the commit.             *)
Envs ==
  { [access |-> TRUE, fetch |-> TRUE, save |-> TRUE],
    [access |-> FALSE, fetch |-> TRUE, save |-> TRUE],
    [access |-> TRUE, fetch |-> FALSE, save |-> TRUE],
    [access |-> TRUE, fetch |-> TRUE, save |-> FALSE] }

NoOp == [op |-> "none", list |-> "", reminder |-> "", args |-> <<>>,
         out |-> Success, before |-> <<>>]

(* The helper processes running side by side, and one that has not started *)
Procs == {1, 2}

Idle == [pc |-> "idle", call |-> None, li |-> 0, ri |-> 0,
         seen |-> None, copy |-> None, out |-> None]

Init ==
  /\ store \in InitStores
  /\ env \in Envs
  /\ last = NoOp
  /\ nops = 0
  /\ calls = [p \in Procs |-> Idle]

----------------------------------------------------------------------------
(* One invocation: the command runs to its end on the current store.       *)

Invoke(op, list, reminder, args, r) ==
  /\ nops < MaxOps
  /\ store' = r.store
  /\ last' = [op |-> op, list |-> list, reminder |-> reminder, args |-> args,
              out |-> r.out, before |-> store]
  /\ nops' = nops + 1
  /\ UNCHANGED <<env, calls>>

AddReminder ==
  \E l \in ListNames, t \in Titles, a \in AddArgs :
    Invoke("add", l, t, a, AddReminder_run(store, env, l, t, a.body, a.dueDate))

CompleteReminder ==
  \E g \in Targets :
    Invoke("complete", g[1], g[2], <<>>, CompleteReminder_run(store, env, g[1], g[2]))

DeleteReminder ==
  \E g \in Targets :
    Invoke("delete", g[1], g[2], <<>>, DeleteReminder_run(store, env, g[1], g[2]))

UpdateReminder ==
  \E g \in Targets, a \in UpdateArgs :
    Invoke("update", g[1], g[2], a,
           update_reminder(store, env, g[1], g[2],
                           a.newName, a.newBody, a.appendBody, a.newDueDate))

SetPriority ==
  \E g \in Targets, p \in PrioritiesAsked :
    Invoke("set-priority", g[1], g[2], [priority |-> p],
           set_priority(store, env, g[1], g[2], p))

SetRemindDate ==
  \E g \in Targets, d \in DateTexts :
    Invoke("set-remind-date", g[1], g[2], [date |-> d],
           SetRemindDate_run(store, env, g[1], g[2], d))

GetRecurrence ==
  \E g \in Targets :
    Invoke("get-recurrence", g[1], g[2], <<>>, GetRecurrence_run(store, env, g[1], g[2]))

(* The helper hands interval and endCount to EKRecurrenceEnd and            *)
(* EKRecurrenceRule as they come.  What the framework does with a value    *)
(* below 1 is not in this code: it takes the value (taken) or it raises    *)
(* and the helper dies before the save.                                    *)
SetRecurrence ==
  \E g \in Targets, a \in RecurrenceArgs, taken \in BOOLEAN :
    /\ (a.interval >= 1 /\ (IsSome(a.endCount) => Get(a.endCount) >= 1)) => taken
    /\ LET r == SetRecurrence_run(store, env, g[1], g[2],
                                  a.frequency, a.interval, a.endCount, a.endDate)
       IN Invoke("set-recurrence", g[1], g[2], a,
                 IF taken \/ r.out.kind # "success" THEN r
                 ELSE Result(store, Error("Exception")))

ClearRecurrence ==
  \E g \in Targets :
    Invoke("clear-recurrence", g[1], g[2], <<>>, ClearRecurrence_run(store, env, g[1], g[2]))

GetLocation ==
  \E g \in Targets :
    Invoke("get-location", g[1], g[2], <<>>, GetLocation_run(store, env, g[1], g[2]))

(* The helper assigns the radius to the EKStructuredLocation as it comes.  *)
(* What the store does with a radius that is not above 0 is not in this    *)
(* code: it takes the alarm (taken) or it refuses the save.                *)
SetLocation ==
  \E g \in Targets, a \in LocationArgs, taken \in BOOLEAN :
    /\ a.place.radius > 0 => taken
    /\ LET r == SetLocation_run(store, env, g[1], g[2], a.place.title,
                                a.place.latitude, a.place.longitude,
                                a.place.radius, a.proximity)
       IN Invoke("set-location", g[1], g[2], a,
                 IF taken \/ r.out.kind # "success" THEN r
                 ELSE Result(store, Error("SaveFailed")))

ClearLocation ==
  \E g \in Targets :
    Invoke("clear-location", g[1], g[2], <<>>, ClearLocation_run(store, env, g[1], g[2]))

SetFlag ==
  \E g \in Targets, f \in BOOLEAN :
    Invoke("set-flag", g[1], g[2], [flagged |-> f], set_flag(store, env, g[1], g[2], f))

ListLists ==
  Invoke("list-lists", "", "", <<>>, ListLists_run(store, env))

GetReminders ==
  \E l \in ListNames, c \in BOOLEAN :
    Invoke("get-reminders", l, "", [includeCompleted |-> c],
           GetReminders_run(store, env, l, c))

GetRemindersScript ==
  \E l \in ListNames, c \in BOOLEAN, f \in BOOLEAN :
    Invoke("get_reminders", l, "", [includeCompleted |-> c, detailFails |-> f],
           Result(store, get_reminders(store, l, c, f)))

Next ==
  \/ AddReminder
  \/ CompleteReminder
  \/ DeleteReminder
  \/ UpdateReminder
  \/ SetPriority
  \/ SetRemindDate
  \/ GetRecurrence
  \/ SetRecurrence
  \/ ClearRecurrence
  \/ GetLocation
  \/ SetLocation
  \/ ClearLocation
  \/ SetFlag
  \/ ListLists
  \/ GetReminders
  \/ GetRemindersScript

Spec == Init /\ [][Next]_vars

----------------------------------------------------------------------------
(* Two invocations side by side.  Each helper process has its own          *)
(* EKEventStore: it fetches its own copy of the reminder, changes the copy *)
(* and hands it to store.save(_, commit: true); nothing is locked between  *)
(* the fetch and the save.  Begin is a command up to its save, Commit is   *)
(* the save.                                                               *)

(* stores in which every reminder has at most one rule and one alarm of    *)
(* each kind                                                               *)
ConcurrentStores ==
  { << List("Work", <<Tidy, Plain("a")>>) >>,
    << List("Work", <<Plain("b")>>) >> }

(* the invocations made side by side, all on the reminder "b" of "Work" *)
ConcurrentCalls ==
  { [op |-> "set-remind-date", list |-> "Work", reminder |-> "b",
     args |-> [date |-> d]] : d \in DateTexts }
  \cup
  { [op |-> "set-recurrence", list |-> "Work", reminder |-> "b", args |-> a] :
      a \in { RecurrenceArg("weekly", 1, None, None),
               RecurrenceArg("daily", 2, Some(5), None),
               RecurrenceArg("hourly", 1, None, None) } }
  \cup
  { [op |-> "set-location", list |-> "Work", reminder |-> "b", args |-> a] :
      a \in { x \in LocationArgs : x.place.radius > 0 } }

(* the command of an invocation, run on store s *)
RunCall(s, e, c) ==
  CASE c.op = "set-remind-date" ->
         SetRemindDate_run(s, e, c.list, c.reminder, c.args.date)
    [] c.op = "set-recurrence" ->
         SetRecurrence_run(s, e, c.list, c.reminder, c.args.frequency,
                           c.args.interval, c.args.endCount, c.args.endDate)
    [] c.op = "set-location" ->
         SetLocation_run(s, e, c.list, c.reminder, c.args.place.title,
                         c.args.place.latitude, c.args.place.longitude,
                         c.args.place.radius, c.args.proximity)

InitConcurrent ==
  /\ store \in ConcurrentStores
  /\ env \in Envs
  /\ last = NoOp
  /\ nops = 0
  /\ calls = [p \in Procs |-> Idle]

(* process p runs its command up to the save: it ends there with an error  *)
(* or {success: false}, or holds the reminder it fetched (seen) and the    *)
(* changed copy it is about to save                                        *)
Begin(p) ==
  /\ calls[p].pc = "idle"
  /\ \E c \in ConcurrentCalls :
       LET f == resolve(store, env, c.list, c.reminder)
           r == RunCall(store, [env EXCEPT !.save = TRUE], c)
       IN calls' = [calls EXCEPT ![p] =
                      IF r.out.kind = "success"
                      THEN [pc |-> "fetched", call |-> Some(c),
                            li |-> f.li, ri |-> f.ri,
                            seen |-> Some(store[f.li].reminders[f.ri]),
                            copy |-> Some(r.store[f.li].reminders[f.ri]),
                            out |-> None]
                      ELSE [Idle EXCEPT !.pc = "done", !.call = Some(c),
                                        !.out = Some(r.out)]]
  /\ UNCHANGED <<store, env, last, nops>>

(* process p saves its copy: the store takes the whole reminder *)
Commit(p) ==
  /\ calls[p].pc = "fetched"
  /\ LET r == save(store, env, calls[p].li, calls[p].ri, Get(calls[p].copy))
     IN /\ store' = r.store
        /\ calls' = [calls EXCEPT ![p].pc = "done", ![p].out = Some(r.out)]
  /\ UNCHANGED <<env, last, nops>>

NextConcurrent ==
  \E p \in Procs :
    \/ Begin(p)
    \/ Commit(p)

SpecConcurrent == InitConcurrent /\ [][NextConcurrent]_vars

----------------------------------------------------------------------------
(* Vocabulary of the properties.                                           *)

TimeAlarmsOf(r) == SelectSeq(r.alarms, LAMBDA a : IsSome(a.absoluteDate))

LocationAlarmsOf(r) == SelectSeq(r.alarms, LAMBDA a : IsSome(a.structuredLocation))

(* the last invocation was op and ended in {success: true} *)
Succeeded(op) == last.op = op /\ last.out.kind = "success"

(* what the last invocation's list and reminder names resolved to *)
Found == findReminder(last.before, env, last.list, last.reminder)

(* the resolved reminder before and after the last invocation *)
Before == last.before[Found.li].reminders[Found.ri]

After == store[Found.li].reminders[Found.ri]

(* positions of the reminders of list li titled t *)
Matches(s, li, t) ==
  {k \in 1..Len(s[li].reminders) : s[li].reminders[k].title = t}

(* every reminder but the one at (li, ri) is as it was, none added or removed *)
OnlyChanged(li, ri) ==
  /\ Len(store) = Len(last.before)
  /\ \A i \in 1..Len(store) :
       /\ store[i].title = last.before[i].title
       /\ Len(store[i].reminders) = Len(last.before[i].reminders)
       /\ \A k \in 1..Len(store[i].reminders) :
            (i # li \/ k # ri) => store[i].reminders[k] = last.before[i].reminders[k]

AtMostOneOfEach(s) ==
  \A i \in 1..Len(s) : \A k \in 1..Len(s[i].reminders) :
    /\ Len(s[i].reminders[k].recurrenceRules) <= 1
    /\ Len(TimeAlarmsOf(s[i].reminders[k])) <= 1
    /\ Len(LocationAlarmsOf(s[i].reminders[k])) <= 1

----------------------------------------------------------------------------
(* C1: after a successful set-remind-date with date text t the resolved    *)
(* reminder carries exactly one alarm with an absolute date, whatever it   *)
(* carried before, and that date is t.                                     *)
C1_OneTimeAlarmAtT ==
  Succeeded("set-remind-date") =>
    /\ Len(TimeAlarmsOf(After)) = 1
    /\ stringFromDate(Get(TimeAlarmsOf(After)[1].absoluteDate)) = last.args.date

(* the second of two successive calls: the reminder "a" carried the one    *)
(* alarm of an earlier call, at another time                               *)
C1_Witness ==
  /\ Succeeded("set-remind-date")
  /\ nops = 2
  /\ last.reminder = "a"
  /\ Len(TimeAlarmsOf(Before)) = 1
  /\ TimeAlarmsOf(Before) # TimeAlarmsOf(After)
  /\ Len(TimeAlarmsOf(After)) = 1

(* C2: after a successful set-recurrence the resolved reminder carries     *)
(* exactly one rule, whatever it carried before, with the frequency,       *)
(* interval and end of the call (the count when one is given, else the     *)
(* date when one is given, else no end).                                   *)
C2_OneRuleOfTheCall ==
  Succeeded("set-recurrence") =>
    /\ Len(After.recurrenceRules) = 1
    /\ LET rule == After.recurrenceRules[1]
           a == last.args
       IN /\ rule.frequency = lowercased(a.frequency)
          /\ rule.interval = a.interval
          /\ IsSome(a.endCount) =>
               rule.recurrenceEnd = Some([endDate |-> None,
                                          occurrenceCount |-> Get(a.endCount)])
          /\ (~IsSome(a.endCount) /\ IsSome(a.endDate)) =>
               /\ IsSome(rule.recurrenceEnd)
               /\ Get(rule.recurrenceEnd).occurrenceCount = 0
               /\ stringFromDate(Get(Get(rule.recurrenceEnd).endDate)) = Get(a.endDate)
          /\ (~IsSome(a.endCount) /\ ~IsSome(a.endDate)) =>
               rule.recurrenceEnd = None

(* the second of two successive calls: the reminder "a" carried the one    *)
(* rule of an earlier call, a different one                                *)
C2_Witness ==
  /\ Succeeded("set-recurrence")
  /\ nops = 2
  /\ last.reminder = "a"
  /\ Len(Before.recurrenceRules) = 1
  /\ Before.recurrenceRules # After.recurrenceRules
  /\ Len(After.recurrenceRules) = 1

(* C3: an invocation of any command on a store in which every reminder has *)
(* at most one rule, one time alarm and one location alarm leaves such a   *)
(* store.                                                                  *)
C3_AtMostOnePreserved ==
  (last.op # "none" /\ AtMostOneOfEach(last.before)) => AtMostOneOfEach(store)

(* set-location replacing the location alarm of a reminder in such a store *)
C3_Witness ==
  /\ Succeeded("set-location")
  /\ AtMostOneOfEach(last.before)
  /\ Len(LocationAlarmsOf(Before)) = 1
  /\ Len(TimeAlarmsOf(Before)) = 1
  /\ LocationAlarmsOf(After) # LocationAlarmsOf(Before)
  /\ AtMostOneOfEach(store)

(* C4: after a successful clear-location the resolved reminder has no      *)
(* alarm with a location, get-location on it reports none, and its time    *)
(* alarms are the ones it had.                                             *)
C4_ClearLocationKeepsTimeAlarms ==
  Succeeded("clear-location") =>
    /\ LocationAlarmsOf(After) = <<>>
    /\ ~toOutput(After).hasLocation
    /\ GetLocation_run(store, env, last.list, last.reminder).out = Success
    /\ TimeAlarmsOf(After) = TimeAlarmsOf(Before)

(* a reminder that had both kinds of alarm *)
C4_Witness ==
  /\ Succeeded("clear-location")
  /\ LocationAlarmsOf(Before) # <<>>
  /\ toOutput(Before).hasLocation
  /\ TimeAlarmsOf(Before) # <<>>
  /\ TimeAlarmsOf(After) = TimeAlarmsOf(Before)

(* C5: after a successful clear-recurrence the resolved reminder has no    *)
(* rule and the alarms it had; when it had no rule the store is as before. *)
C5_ClearRecurrenceKeepsAlarms ==
  Succeeded("clear-recurrence") =>
    /\ After.recurrenceRules = <<>>
    /\ After.alarms = Before.alarms
    /\ LocationAlarmsOf(After) = LocationAlarmsOf(Before)
    /\ toOutput(After).location = toOutput(Before).location
    /\ Before.recurrenceRules = <<>> => store = last.before

(* set-location(Office, 35, 139, 50, Leave), then clear-recurrence on the  *)
(* same reminder, which had rules: the location alarm is still there       *)
C5_Witness ==
  /\ Succeeded("clear-recurrence")
  /\ nops = 2
  /\ Before.recurrenceRules # <<>>
  /\ After.recurrenceRules = <<>>
  /\ \E k \in 1..Len(After.alarms) :
       After.alarms[k] =
         LocationAlarm(StructuredLocation("Office", 35, 139, 50), "leave")

(* C6: update with none of newName, newBody, appendBody, newDueDate ends   *)
(* in {success: false}, never in an error, and leaves the store as it was, *)
(* whatever the list, the reminder and the environment.                    *)
C6_UpdateNothingToDo ==
  (/\ last.op = "update"
   /\ ~Truthy(last.args.newName) /\ ~Truthy(last.args.newBody)
   /\ ~Truthy(last.args.appendBody) /\ ~Truthy(last.args.newDueDate))
  => /\ last.out = Nothing
     /\ last.out.kind # "error"
     /\ store = last.before

(* no field at all, on a store to which access is denied: still no error   *)
C6_Witness ==
  /\ last.op = "update"
  /\ last.args = UpdateArg(None, None, None, None)
  /\ ~env.access
  /\ last.out = Nothing
  /\ store = last.before

(* C7: after a successful set-recurrence(frequency, interval, endCount n)  *)
(* with frequency one of daily, weekly, monthly, yearly, interval at least *)
(* 1 and n at least 1, get-recurrence on                                   *)
(* the same reminder returns that frequency and interval, endCount n and   *)
(* no endDate.                                                             *)
C7_RecurrenceRoundTrip ==
  (/\ Succeeded("set-recurrence")
   /\ IsSome(last.args.endCount)
   /\ Get(last.args.endCount) >= 1
   /\ last.args.interval >= 1
   /\ last.args.frequency \in {"daily", "weekly", "monthly", "yearly"})
  => GetRecurrence_run(store, env, last.list, last.reminder).out
       = Value([frequency |-> last.args.frequency,
                interval |-> last.args.interval,
                endDate |-> None,
                endCount |-> last.args.endCount,
                daysOfWeek |-> None])

(* get-recurrence answering {weekly, 2, endCount 5, no endDate} on a       *)
(* reminder whose rule before the set-recurrence was another one           *)
C7_Witness ==
  /\ last.op = "get-recurrence"
  /\ nops = 2
  /\ last.out = Value([frequency |-> "weekly", interval |-> 2, endDate |-> None,
                       endCount |-> Some(5), daysOfWeek |-> None])
  /\ store = last.before

(* C8: in a list that resolves and answers the fetch, findReminder returns *)
(* the first reminder, in store order, whose title is the requested one    *)
(* whenever there is one, and ReminderNotFound exactly when there is none; *)
(* a command that succeeded on (list, title) changed that reminder only.   *)
C8_FirstExactTitle ==
  /\ \A l \in ListNames, t \in Titles \cup {"A"} :
       LET li == findList(store, l)
           f == findReminder(store, env, l, t)
       IN (li # 0 /\ env.fetch) =>
            /\ Matches(store, li, t) # {} =>
                 /\ f.error = ""
                 /\ f.li = li
                 /\ f.ri \in Matches(store, li, t)
                 /\ \A k \in Matches(store, li, t) : f.ri <= k
                 /\ store[li].reminders[f.ri].title = t
            /\ (f.error = "ReminderNotFound") <=> (Matches(store, li, t) = {})
  /\ \A op \in {"complete", "set-priority", "set-remind-date", "set-recurrence",
                "clear-recurrence", "set-location", "clear-location"} :
       Succeeded(op) =>
         /\ Found.ri \in Matches(last.before, Found.li, last.reminder)
         /\ \A k \in Matches(last.before, Found.li, last.reminder) : Found.ri <= k
         /\ OnlyChanged(Found.li, Found.ri)

(* two reminders of the list have the title; the command changed the first *)
(* and left the second                                                     *)
C8_Witness ==
  /\ Succeeded("set-priority")
  /\ \E k \in Matches(last.before, Found.li, last.reminder) : k > Found.ri
  /\ After # Before
  /\ After.priority = last.args.priority
  /\ OnlyChanged(Found.li, Found.ri)

(* C9: after a successful complete(list, title) the reminder is completed, *)
(* (list, title) still resolves to it, no command that resolves a reminder *)
(* by (list, title) fails with ReminderNotFound, and get-reminders with    *)
(* includeCompleted false does not list it.                                *)
C9_CompletedStaysAddressable ==
  Succeeded("complete") =>
    LET l == last.list
        t == last.reminder
        rs == fetchReminders(store, Found.li, FALSE)
        listed == GetReminders_run(store, env, l, FALSE).out
        outs ==
          { CompleteReminder_run(store, env, l, t).out,
            DeleteReminder_run(store, env, l, t).out,
            ClearRecurrence_run(store, env, l, t).out,
            ClearLocation_run(store, env, l, t).out,
            GetRecurrence_run(store, env, l, t).out,
            GetLocation_run(store, env, l, t).out }
          \cup { update_reminder(store, env, l, t, a.newName, a.newBody,
                                 a.appendBody, a.newDueDate).out : a \in UpdateArgs }
          \cup { SetPriority_run(store, env, l, t, p).out : p \in Priorities }
          \cup { SetRemindDate_run(store, env, l, t, d).out : d \in DateTexts }
          \cup { SetRecurrence_run(store, env, l, t, a.frequency, a.interval,
                                   a.endCount, a.endDate).out : a \in RecurrenceArgs }
          \cup { SetLocation_run(store, env, l, t, a.place.title, a.place.latitude,
                                 a.place.longitude, a.place.radius,
                                 a.proximity).out : a \in LocationArgs }
    IN /\ After.isCompleted
       /\ findReminder(store, env, l, t) = Found
       /\ Error("ReminderNotFound") \notin outs
       /\ \A k \in 1..Len(rs) : rs[k] # Found.ri
       /\ listed.kind = "value"
       /\ Len(Get(listed.value)) = Len(rs)
       /\ \A k \in 1..Len(rs) : ~Get(listed.value)[k].completed

(* an open reminder was completed: a later set-priority on (list, title)   *)
(* would succeed, and the open listing is one entry shorter                *)
C9_Witness ==
  /\ Succeeded("complete")
  /\ ~Before.isCompleted
  /\ After.isCompleted
  /\ SetPriority_run(store, env, last.list, last.reminder, 7).out.kind = "success"
  /\ Len(fetchReminders(store, Found.li, FALSE))
       = Len(fetchReminders(last.before, Found.li, FALSE)) - 1

(* the invocation got as far as the command: the tool did not refuse its   *)
(* arguments                                                               *)
ReachedCommand == last.out # Error("InvalidArguments")

(* the commands of the helper that resolve a list by name *)
HelperOps ==
  {"add", "complete", "delete", "update", "set-priority", "set-remind-date",
   "get-recurrence", "set-recurrence", "clear-recurrence",
   "get-location", "set-location", "clear-location", "get-reminders"}

(* findList returns the first list with exactly the name, none otherwise *)
FindListExact ==
  \A name \in ListNames \cup {"WORK"} :
    LET S == {i \in 1..Len(store) : store[i].title = name}
        li == findList(store, name)
    IN /\ S = {} => li = 0
       /\ S # {} => (li \in S /\ \A i \in S : li <= i)

(* update_reminder handed on at least one field *)
SomeField(a) ==
  Truthy(a.newName) \/ Truthy(a.newBody) \/ Truthy(a.appendBody) \/ Truthy(a.newDueDate)

(* C10 as stated, access to the store being granted: findList is exact    *)
(* and first-match, and every helper command invoked with a list name that *)
(* does not resolve ends in ListNotFound with the store unchanged.         *)
C10_AsStated ==
  /\ FindListExact
  /\ (/\ last.op \in HelperOps
      /\ ReachedCommand
      /\ env.access
      /\ findList(last.before, last.list) = 0)
     => /\ last.out = Error("ListNotFound")
        /\ store = last.before

(* C10: findList returns the first list whose name is exactly the one      *)
(* asked for and none when there is no such list, letter case included; a  *)
(* helper command invoked with a list name that does not resolve leaves    *)
(* the store unchanged, and it ends in ListNotFound when it gets as far as *)
(* resolving the list: access is granted and, for update, at least one     *)
(* field is given.                                                         *)
C10_ExactListOrListNotFound ==
  /\ FindListExact
  /\ (/\ last.op \in HelperOps
      /\ ReachedCommand
      /\ findList(last.before, last.list) = 0)
     => /\ store = last.before
        /\ last.out.kind \in {"error", "nothing"}
        /\ (env.access /\ (last.op = "update" => SomeField(last.args)))
           => last.out = Error("ListNotFound")
        /\ (env.access /\ last.op = "update" /\ ~SomeField(last.args))
           => last.out = Nothing

(* "work" asked of a store whose only lists are named "Work": an add ends  *)
(* in ListNotFound and adds nothing                                        *)
C10_Witness ==
  /\ last.op = "add"
  /\ last.list = "work"
  /\ findList(last.before, "work") = 0
  /\ findList(last.before, "Work") # 0
  /\ last.out = Error("ListNotFound")
  /\ store = last.before

(* every command of the helper *)
HelperCommands == HelperOps \cup {"list-lists"}

(* C11 as stated: whenever access is denied an invocation of any           *)
(* operation ends in AccessDenied and leaves the store untouched.          *)
C11_AsStated ==
  (~env.access /\ last.op # "none" /\ ReachedCommand)
  => /\ last.out = Error("AccessDenied")
     /\ store = last.before

(* C11: when access is denied every command of the helper leaves the store *)
(* untouched and reports nothing read from it: it ends in AccessDenied,    *)
(* whatever the list and the reminder named, except update with no field,  *)
(* which ends in {success: false} before access is requested.              *)
C11_HelperFailsClosed ==
  (~env.access /\ last.op \in HelperCommands /\ ReachedCommand)
  => /\ store = last.before
     /\ IF last.op = "update" /\ ~SomeField(last.args)
        THEN last.out = Nothing
        ELSE last.out = Error("AccessDenied")

(* delete of a reminder that is there, access denied: AccessDenied, and    *)
(* the reminder is still there                                             *)
C11_Witness ==
  /\ ~env.access
  /\ last.op = "delete"
  /\ Found.error = ""
  /\ last.out = Error("AccessDenied")
  /\ store = last.before

(* the flags of the reminders of a store, list by list *)
FlagsOf(s) ==
  [i \in 1..Len(s) |-> [k \in 1..Len(s[i].reminders) |-> s[i].reminders[k].flagged]]

(* C12: get-reminders serializes flagged = false for every reminder in     *)
(* every reachable state, also for a reminder whose flag set-flag has set; *)
(* no command of the helper changes the flag of a reminder: add creates    *)
(* one unflagged, delete takes one away, the others leave all flags.       *)
C12_FlagReadOnlyFalse ==
  /\ \A l \in ListNames, c \in BOOLEAN :
       LET o == GetReminders_run(store, env, l, c).out
       IN o.kind = "value" =>
            \A k \in 1..Len(Get(o.value)) : ~Get(o.value)[k].flagged
  /\ (last.op = "get-reminders" /\ last.out.kind = "value") =>
       \A k \in 1..Len(Get(last.out.value)) : ~Get(last.out.value)[k].flagged
  /\ (last.op \in HelperCommands \ {"add", "delete"}) =>
       FlagsOf(store) = FlagsOf(last.before)
  /\ Succeeded("add") =>
       LET li == findList(last.before, last.list)
           n == Len(last.before[li].reminders)
       IN /\ Len(store[li].reminders) = n + 1
          /\ ~store[li].reminders[n + 1].flagged
          /\ \A i \in 1..Len(store) : \A k \in 1..Len(last.before[i].reminders) :
               store[i].reminders[k].flagged = last.before[i].reminders[k].flagged
  /\ Succeeded("delete") =>
       \A i \in 1..Len(store) : \A k \in 1..Len(store[i].reminders) :
         store[i].reminders[k].flagged =
           last.before[i].reminders[IF i = Found.li /\ k >= Found.ri
                                    THEN k + 1 ELSE k].flagged
  /\ (last.op \in {"add", "delete"} /\ ~Succeeded(last.op)) =>
       FlagsOf(store) = FlagsOf(last.before)

(* set-flag(true) has set the flag of a reminder in the store, and         *)
(* get-reminders on its list still serializes it with flagged = false      *)
C12_Witness ==
  /\ Succeeded("set-flag")
  /\ Found.error = ""
  /\ last.args.flagged
  /\ ~Before.flagged
  /\ After.flagged
  /\ LET o == GetReminders_run(store, env, last.list, TRUE).out
     IN /\ o.kind = "value"
        /\ Len(Get(o.value)) = Len(store[Found.li].reminders)
        /\ ~Get(o.value)[Found.ri].flagged

(* C13: get_reminders on a list that resolves never ends in an error; it   *)
(* answers the detailed projection of every reminder matching the          *)
(* includeCompleted filter or, when the detailed script fails, names only  *)
(* for the whole call, one entry per matching reminder, each its name.     *)
C13_AllOrNothingDegrade ==
  (last.op = "get_reminders" /\ findList(last.before, last.list) # 0) =>
    LET li == findList(last.before, last.list)
        rs == fetchReminders(last.before, li, last.args.includeCompleted)
        v == Get(last.out.value)
    IN /\ last.out.kind \in {"detailed", "names"}
       /\ last.out.kind = "names" <=> last.args.detailFails
       /\ Len(v) = Len(rs)
       /\ last.out.kind = "detailed" =>
            \A k \in 1..Len(rs) :
              v[k].name = last.before[li].reminders[rs[k]].title
       /\ last.out.kind = "names" =>
            \A k \in 1..Len(rs) :
              v[k] = Chars(last.before[li].reminders[rs[k]].title)
       /\ store = last.before

(* the last invocation made once more, on the store it left *)
Again ==
  LET l == last.list
      t == last.reminder
      a == last.args
  IN CASE last.op = "complete" -> CompleteReminder_run(store, env, l, t)
       [] last.op = "set-priority" -> set_priority(store, env, l, t, a.priority)
       [] last.op = "update" ->
            update_reminder(store, env, l, t, a.newName, a.newBody,
                            a.appendBody, a.newDueDate)
       [] last.op = "set-remind-date" -> SetRemindDate_run(store, env, l, t, a.date)
       [] last.op = "set-recurrence" ->
            SetRecurrence_run(store, env, l, t, a.frequency, a.interval,
                              a.endCount, a.endDate)
       [] last.op = "clear-recurrence" -> ClearRecurrence_run(store, env, l, t)
       [] last.op = "set-location" ->
            SetLocation_run(store, env, l, t, a.place.title, a.place.latitude,
                            a.place.longitude, a.place.radius, a.proximity)
       [] last.op = "clear-location" -> ClearLocation_run(store, env, l, t)
       [] last.op = "set-flag" -> set_flag(store, env, l, t, a.flagged)
       [] OTHER -> Result(store, last.out)

(* the field-setting mutators, append-to-body left out *)
FieldSetting ==
  /\ last.op \in {"complete", "set-priority", "update", "set-remind-date",
                  "set-recurrence", "clear-recurrence", "set-location",
                  "clear-location", "set-flag"}
  /\ last.out.kind = "success"
  /\ last.op = "update" => ~Truthy(last.args.appendBody)

(* the last invocation gave the reminder another title *)
Renamed ==
  /\ last.op = "update"
  /\ Truthy(last.args.newName)
  /\ Get(last.args.newName) # last.reminder

(* C14 as stated: a field-setting mutator other than append-to-body        *)
(* invoked a second time with the same arguments leaves the store as the   *)
(* first invocation left it, duplicate titles included.                    *)
C14_AsStated ==
  FieldSetting => Again.store = store

(* C14: a field-setting mutator other than append-to-body invoked a second *)
(* time with the same arguments leaves the store as the first invocation   *)
(* left it, duplicate titles included, unless it was an update that gave   *)
(* the reminder another title: the second update then fails with           *)
(* ReminderNotFound and changes nothing when no other reminder of the list *)
(* has the old title, and otherwise changes the next reminder that has it. *)
C14_FieldLevelIdempotence ==
  FieldSetting =>
    /\ ~Renamed => (Again.store = store /\ Again.out = last.out)
    /\ (Renamed /\ Matches(store, Found.li, last.reminder) = {}) =>
         (Again.store = store /\ Again.out = Error("ReminderNotFound"))
    /\ (Renamed /\ Matches(store, Found.li, last.reminder) # {}) =>
         LET k == FirstIndex(Matches(store, Found.li, last.reminder))
         IN /\ Again.out = Success
            /\ Again.store # store
            /\ Again.store[Found.li].reminders[k].title = Get(last.args.newName)

(* set-remind-date on a reminder that had two time alarms, one of its      *)
(* title among two: the second invocation changes nothing                  *)
C14_Witness ==
  /\ FieldSetting
  /\ last.op = "set-remind-date"
  /\ Len(TimeAlarmsOf(Before)) = 2
  /\ \E k \in Matches(last.before, Found.li, last.reminder) : k > Found.ri
  /\ After # Before
  /\ Again.store = store

(* the notes as text, empty when there are none *)
NotesText(r) == IF IsSome(r.notes) THEN Get(r.notes) ELSE ""

(* C15: a successful update with appendBody s sets the notes to the        *)
(* previous notes (empty when absent) followed by a newline and s, or to   *)
(* newBody followed by a newline and s when newBody is given too; with     *)
(* appendBody alone each further call appends one more copy.               *)
C15_AppendIsCumulative ==
  (Succeeded("update") /\ Truthy(last.args.appendBody)) =>
    LET a == last.args
        sfx == "\n" \o Get(a.appendBody)
    IN /\ Truthy(a.newBody) => After.notes = Some(Get(a.newBody) \o sfx)
       /\ ~Truthy(a.newBody) => After.notes = Some(NotesText(Before) \o sfx)
       /\ (~Truthy(a.newBody) /\ ~Renamed) =>
            /\ Again.out = Success
            /\ Again.store[Found.li].reminders[Found.ri].notes
                 = Some(NotesText(Before) \o sfx \o sfx)
            /\ Again.store # store

(* the second of two appends of y to a reminder that had the notes x *)
C15_Witness ==
  /\ Succeeded("update")
  /\ nops = 2
  /\ last.args = UpdateArg(None, None, Some("y"), None)
  /\ After.notes = Some("x\ny\ny")

(* C16: after a successful update every field supplied to update_reminder, *)
(* whatever its value, is the reminder's (the notes being newBody, then    *)
(* appendBody on a new line), and every field not supplied is unchanged,   *)
(* as are completed, priority, flag, alarms and recurrence rules.          *)
C16_AppliesEachSuppliedField ==
  Succeeded("update") =>
    LET a == last.args
        base == IF IsSome(a.newBody) THEN Get(a.newBody) ELSE NotesText(Before)
    IN /\ After.title = IF IsSome(a.newName) THEN Get(a.newName) ELSE Before.title
       /\ After.notes =
            IF IsSome(a.appendBody) THEN Some(base \o "\n" \o Get(a.appendBody))
            ELSE IF IsSome(a.newBody) THEN a.newBody
            ELSE Before.notes
       /\ toOutput(After).dueDate =
            IF IsSome(a.newDueDate) THEN a.newDueDate ELSE toOutput(Before).dueDate
       /\ After.isCompleted = Before.isCompleted
       /\ After.priority = Before.priority
       /\ After.flagged = Before.flagged
       /\ After.alarms = Before.alarms
       /\ After.recurrenceRules = Before.recurrenceRules
       /\ OnlyChanged(Found.li, Found.ri)

(* the date text given to the last invocation, none when it takes none *)
DateGiven ==
  CASE last.op = "add" -> last.args.dueDate
    [] last.op = "update" ->
         IF Truthy(last.args.newDueDate) THEN last.args.newDueDate ELSE None
    [] last.op = "set-remind-date" -> Some(last.args.date)
    [] OTHER -> None

(* the last invocation got as far as parsing its date: access granted and  *)
(* the list (add) or the reminder (update, set-remind-date) resolved       *)
ReachedParse ==
  /\ env.access
  /\ IF last.op = "add" THEN findList(last.before, last.list) # 0
     ELSE Found.error = ""

(* C17: add, update and set-remind-date given a date text that does not    *)
(* parse never succeed and never change the store; when the list or the    *)
(* reminder resolves they end in InvalidDate: no reminder is created, no   *)
(* field of the target changes and no time alarm is removed.               *)
C17_InvalidDateWritesNothing ==
  (IsSome(DateGiven) /\ ~IsSome(dateFromString(Get(DateGiven)))) =>
    /\ last.out.kind = "error"
    /\ store = last.before
    /\ ReachedParse => last.out = Error("InvalidDate")
    /\ ~ReachedParse =>
         last.out.error \in {"AccessDenied", "ListNotFound", "FetchFailed",
                             "ReminderNotFound"}

(* set-remind-date "tomorrow" on a reminder that has time alarms: they are *)
(* all still there                                                         *)
C17_Witness ==
  /\ last.op = "set-remind-date"
  /\ last.args.date = "tomorrow"
  /\ ReachedParse
  /\ TimeAlarmsOf(Before) # <<>>
  /\ last.out = Error("InvalidDate")
  /\ After = Before
  /\ store = last.before

(* C18: set-recurrence with a frequency outside daily, weekly, monthly,    *)
(* yearly and set-location with a proximity outside enter, leave, on a     *)
(* reminder that resolves, end in an error outcome, never in a success     *)
(* envelope.                                                               *)
C18_InvalidEnumIsError ==
  /\ (/\ last.op = "set-recurrence"
      /\ env.access /\ Found.error = ""
      /\ lowercased(last.args.frequency) \notin {"daily", "weekly", "monthly", "yearly"})
     => last.out.kind = "error"
  /\ (/\ last.op = "set-location"
      /\ env.access /\ Found.error = ""
      /\ lowercased(last.args.proximity) \notin {"enter", "leave"})
     => last.out.kind = "error"

(* C19: the label is none for 0, high for 1..3, medium for 4..6 and low    *)
(* for 7..9, the helper and the script-only server agree on it for every   *)
(* priority, and a successful set-priority answers the label of the        *)
(* priority it stored.                                                     *)
C19_PriorityBuckets ==
  /\ \A p \in 0..9 :
       /\ SetPriority_label(p) =
            (CASE p = 0 -> "none"
               [] p \in 1..3 -> "high"
               [] p \in 4..6 -> "medium"
               [] p \in 7..9 -> "low")
       /\ SetPriority_label(p) = set_priority_label(p)
  /\ Succeeded("set-priority") =>
       /\ After.priority = last.args.priority
       /\ last.out = Message(SetPriority_label(After.priority))
       /\ last.out.value = Some(set_priority_label(last.args.priority))
       /\ last.args.priority = 0 <=> last.out.value = Some("none")

(* priority 7 stored on a reminder that had another one, answered low *)
C19_Witness ==
  /\ Succeeded("set-priority")
  /\ last.args.priority = 7
  /\ Before.priority # 7
  /\ After.priority = 7
  /\ last.out.value = Some("low")

(* C20: after a successful set-location the reminder carries exactly one   *)
(* alarm with a location, whatever it carried before, with the title,      *)
(* coordinates, radius and proximity of the call; get-location on it       *)
(* returns them, the proximity as enter or leave; time alarms are kept.    *)
C20_OneLocationAlarmOfTheCall ==
  Succeeded("set-location") =>
    LET a == last.args
        prox == lowercased(a.proximity)
    IN /\ prox \in {"enter", "leave"}
       /\ LocationAlarmsOf(After) =
            << LocationAlarm(StructuredLocation(a.place.title, a.place.latitude,
                                                a.place.longitude, a.place.radius),
                             prox) >>
       /\ TimeAlarmsOf(After) = TimeAlarmsOf(Before)
       /\ GetLocation_run(store, env, last.list, last.reminder).out =
            Value([title |-> a.place.title, latitude |-> a.place.latitude,
                   longitude |-> a.place.longitude, radius |-> a.place.radius,
                   proximity |-> prox])

(* set-location with proximity Leave on a reminder that carried two alarms *)
(* with a location: one is left, reported as leave                         *)
C20_Witness ==
  /\ Succeeded("set-location")
  /\ Len(LocationAlarmsOf(Before)) = 2
  /\ last.args.proximity = "Leave"
  /\ Len(LocationAlarmsOf(After)) = 1
  /\ toOutput(After).location # toOutput(Before).location
  /\ Get(toOutput(After).location).proximity = "leave"

(* the last invocation was a set-recurrence with an endDate that does not  *)
(* parse, on a reminder that resolved, with a frequency of the four        *)
BadEndDate ==
  /\ last.op = "set-recurrence"
  /\ IsSome(last.args.endDate)
  /\ ~IsSome(dateFromString(Get(last.args.endDate)))
  /\ env.access
  /\ Found.error = ""
  /\ lowercased(last.args.frequency) \in {"daily", "weekly", "monthly", "yearly"}

(* C21: set-recurrence given an endDate that does not parse, on a reminder *)
(* that resolves and with a valid frequency, ends in InvalidDate and       *)
(* leaves the rules of the reminder as they were, whatever the interval    *)
(* and whether or not an endCount is given in the same call.               *)
C21_BadEndDateIsInvalidDate ==
  BadEndDate =>
    /\ last.out = Error("InvalidDate")
    /\ After.recurrenceRules = Before.recurrenceRules
    /\ store = last.before

(* interval or endCount of the last set-recurrence is below 1 *)
BelowOne ==
  \/ last.args.interval < 1
  \/ IsSome(last.args.endCount) /\ Get(last.args.endCount) < 1

(* C22: every rule a successful set-recurrence leaves on the reminder has  *)
(* an interval of at least 1 and, when it ends after a count, a count of   *)
(* at least 1; a set-recurrence with an interval or an endCount below 1    *)
(* leaves the rules of the reminder as they were.                          *)
C22_RulesWithinDomain ==
  /\ Succeeded("set-recurrence") =>
       \A k \in 1..Len(After.recurrenceRules) :
         LET rule == After.recurrenceRules[k]
         IN /\ rule.interval >= 1
            /\ (IsSome(rule.recurrenceEnd) /\ ~IsSome(Get(rule.recurrenceEnd).endDate))
               => Get(rule.recurrenceEnd).occurrenceCount >= 1
  /\ (last.op = "set-recurrence" /\ BelowOne) =>
       /\ Found.error = "" => After.recurrenceRules = Before.recurrenceRules
       /\ store = last.before

(* C23: in every reachable state the priority of every reminder is an      *)
(* integer from 0 to 9; set_priority stores the priority it is given only  *)
(* when it lies in that range, and given one outside it ends in an error   *)
(* and leaves the store, the stored priority included, as it was.          *)
C23_PriorityInRange ==
  /\ \A i \in 1..Len(store) : \A k \in 1..Len(store[i].reminders) :
       store[i].reminders[k].priority \in 0..9
  /\ Succeeded("set-priority") =>
       /\ last.args.priority \in 0..9
       /\ After.priority = last.args.priority
  /\ (last.op = "set-priority" /\ last.args.priority \notin 0..9) =>
       /\ last.out.kind = "error"
       /\ store = last.before

(* priority 12 asked for a reminder that resolves and has priority 5: it   *)
(* still has priority 5                                                    *)
C23_Witness ==
  /\ last.op = "set-priority"
  /\ last.args.priority = 12
  /\ env.access /\ env.save
  /\ Found.error = ""
  /\ Before.priority = 5
  /\ After.priority = 5
  /\ last.out.kind = "error"

(* C24: every alarm with a location that a successful set-location leaves  *)
(* on the reminder has a radius above 0; a set-location with a radius that *)
(* is not above 0 adds no alarm and removes none of the alarms with a      *)
(* location the reminder had.                                              *)
C24_RadiusAboveZero ==
  /\ Succeeded("set-location") =>
       \A k \in 1..Len(LocationAlarmsOf(After)) :
         Get(LocationAlarmsOf(After)[k].structuredLocation).radius > 0
  /\ (last.op = "set-location" /\ last.args.place.radius <= 0) =>
       /\ Found.error = "" => After.alarms = Before.alarms
       /\ store = last.before

(* the alarms whose structured location has coordinates *)
GeoAlarmsOf(r) ==
  SelectSeq(r.alarms, LAMBDA a : /\ IsSome(a.structuredLocation)
                                /\ IsSome(Get(a.structuredLocation).geoLocation))

(* the location object of the schema for an alarm, none for an alarm whose *)
(* location has no coordinates to encode                                   *)
LocationEncoding(a) ==
  IF ~IsSome(a.structuredLocation) THEN None
  ELSE IF ~IsSome(Get(a.structuredLocation).geoLocation) THEN None
  ELSE LET loc == Get(a.structuredLocation)
       IN Some([title |-> loc.title,
                latitude |-> Get(loc.geoLocation).latitude,
                longitude |-> Get(loc.geoLocation).longitude,
                radius |-> loc.radius,
                proximity |-> IF a.proximity \in {"enter", "leave"}
                              THEN a.proximity ELSE "none"])

(* a sequence cut down to its first element *)
FirstOnly(seq) == IF seq = <<>> THEN <<>> ELSE <<seq[1]>>

(* the recurrence part of the output is that of the first rule *)
RecurrenceOfFirstRule(r) ==
  LET out == toOutput(r)
  IN /\ out.hasRecurrence <=> r.recurrenceRules # <<>>
     /\ out.recurrence = IF r.recurrenceRules # <<>>
                         THEN Some(ruleToInfo(r.recurrenceRules[1])) ELSE None
     /\ toOutput([r EXCEPT !.recurrenceRules = FirstOnly(@)]) = out

(* every reminder of the store *)
AllReminders(s) ==
  UNION {{s[i].reminders[k] : k \in 1..Len(s[i].reminders)} : i \in 1..Len(s)}

C26_DeleteRemovesExactlyOne ==
  Succeeded("delete") =>
    LET li == Found.li
        ri == Found.ri
        was == last.before[li].reminders
        now == store[li].reminders
        M == Matches(last.before, li, last.reminder)
        f == findReminder(store, env, last.list, last.reminder)
    IN /\ Found.error = ""
       /\ ri \in M /\ \A k \in M : ri <= k
       /\ Len(store) = Len(last.before)
       /\ \A i \in 1..Len(store) :
            /\ store[i].title = last.before[i].title
            /\ i # li => store[i] = last.before[i]
       /\ Len(now) = Len(was) - 1
       /\ \A k \in 1..Len(now) : now[k] = IF k < ri THEN was[k] ELSE was[k + 1]
       /\ M = {ri} => f.error = "ReminderNotFound"
       /\ M # {ri} =>
            /\ f.error = ""
            /\ f.ri = FirstIndex(M \ {ri}) - 1
            /\ now[f.ri] = was[FirstIndex(M \ {ri})]

(* delete of "a" in a list holding two reminders titled "a" and one titled *)
(* "b", in a store with another list: the second "a" is the one that now   *)
(* resolves, "b" and the other list are as they were                       *)
C26_Witness ==
  /\ Succeeded("delete")
  /\ Cardinality(Matches(last.before, Found.li, last.reminder)) = 2
  /\ Len(last.before[Found.li].reminders) = 3
  /\ Len(store[Found.li].reminders) = 2
  /\ Len(store) = 2
  /\ store[2] = last.before[2]
  /\ store[2].reminders # <<>>
  /\ findReminder(store, env, last.list, last.reminder).error = ""
  /\ store[Found.li].reminders[1] = last.before[Found.li].reminders[2]
  /\ store[Found.li].reminders[1] # last.before[Found.li].reminders[1]

(* C27: a successful add(list, title, body, dueDate) puts exactly one new  *)
(* reminder in the first list of that name, with that title, body and due  *)
(* date, not completed, without alarms and without rules, and leaves every *)
(* reminder there was as it was, one with the same title included; when    *)
(* the list does not resolve the add ends in ListNotFound, and an add that *)
(* does not succeed adds no reminder to any list.                          *)
C27_AddCreatesExactlyOne ==
  /\ Succeeded("add") =>
       LET li == findList(last.before, last.list)
           was == last.before[li].reminders
           now == store[li].reminders
           new == now[Len(now)]
       IN /\ li # 0
          /\ Len(store) = Len(last.before)
          /\ \A i \in 1..Len(store) :
               /\ store[i].title = last.before[i].title
               /\ i # li => store[i] = last.before[i]
          /\ Len(now) = Len(was) + 1
          /\ \A k \in 1..Len(was) : now[k] = was[k]
          /\ new.title = last.reminder
          /\ new.notes = last.args.body
          /\ toOutput(new).title = last.reminder
          /\ toOutput(new).body = last.args.body
          /\ toOutput(new).dueDate = last.args.dueDate
          /\ ~new.isCompleted
          /\ new.alarms = <<>>
          /\ new.recurrenceRules = <<>>
  /\ (last.op = "add" /\ env.access /\ findList(last.before, last.list) = 0) =>
       last.out = Error("ListNotFound")
  /\ (last.op = "add" /\ ~Succeeded("add")) =>
       /\ last.out.kind = "error"
       /\ store = last.before

(* add of "a" with a body and a due date to a list that already holds two  *)
(* reminders titled "a": it now holds three, the two as they were          *)
C27_Witness ==
  /\ Succeeded("add")
  /\ last.reminder = "a"
  /\ last.args.body = Some("x")
  /\ last.args.dueDate = Some("2024-03-15 09:00")
  /\ LET li == findList(last.before, last.list)
     IN /\ Cardinality(Matches(last.before, li, "a")) = 2
        /\ Cardinality(Matches(store, li, "a")) = 3
        /\ store[li].reminders[1] = last.before[li].reminders[1]

(* C28: an invocation of any operation that ends in an error or in         *)
(* {success: false} leaves the store exactly as it was before it: what was *)
(* changed on the fetched reminder before the failing step is not          *)
(* committed.                                                              *)
C28_FailureAtomicity ==
  (last.op # "none" /\ last.out.kind \in {"error", "nothing"}) =>
    store = last.before

(* update given a new title and a due date that does not parse, on a       *)
(* reminder that resolves in a store that would accept the save: the       *)
(* title was set on the fetched object before the parse failed, and the    *)
(* stored title is the old one                                             *)
C28_Witness ==
  /\ last.op = "update"
  /\ last.args = UpdateArg(Some("b"), None, None, Some("tomorrow"))
  /\ env.access /\ env.fetch /\ env.save
  /\ Found.error = ""
  /\ last.out = Error("InvalidDate")
  /\ Before.title = "a"
  /\ After.title = "a"
  /\ store = last.before

(* C29: a successful set-remind-date leaves the alarms with a location and *)
(* the due date of the reminder as they were; a successful set-location    *)
(* leaves its time alarms and its due date as they were; a successful      *)
(* update with newDueDate makes that date the due date and leaves every    *)
(* alarm as it was.                                                        *)
C29_SelectiveByKind ==
  /\ Succeeded("set-remind-date") =>
       /\ LocationAlarmsOf(After) = LocationAlarmsOf(Before)
       /\ After.dueDateComponents = Before.dueDateComponents
       /\ toOutput(After).dueDate = toOutput(Before).dueDate
  /\ Succeeded("set-location") =>
       /\ TimeAlarmsOf(After) = TimeAlarmsOf(Before)
       /\ After.dueDateComponents = Before.dueDateComponents
  /\ (Succeeded("update") /\ Truthy(last.args.newDueDate)) =>
       /\ After.alarms = Before.alarms
       /\ toOutput(After).dueDate = last.args.newDueDate

(* set-remind-date to the last minute of 2024 on a reminder due on         *)
(* 2024-03-15 09:00 that carries alarms with a location: the time alarms   *)
(* changed, the due date and the location alarms did not                   *)
C29_Witness ==
  /\ Succeeded("set-remind-date")
  /\ last.args.date = "2024-12-31 23:59"
  /\ toOutput(Before).dueDate = Some("2024-03-15 09:00")
  /\ toOutput(After).dueDate = Some("2024-03-15 09:00")
  /\ LocationAlarmsOf(Before) # <<>>
  /\ LocationAlarmsOf(After) = LocationAlarmsOf(Before)
  /\ TimeAlarmsOf(After) # TimeAlarmsOf(Before)

(* both invocations have ended *)
BothDone == \A p \in Procs : calls[p].pc = "done"

(* process p has saved its copy *)
Saved(p) == calls[p].pc = "done" /\ calls[p].out = Some(Success)

(* what invocation c asks the reminder to carry: the time alarms, the      *)
(* alarms with a location or the rules of a reminder that satisfies it     *)
Requested(c, r) ==
  CASE c.op = "set-remind-date" ->
         /\ Len(TimeAlarmsOf(r)) = 1
         /\ stringFromDate(Get(TimeAlarmsOf(r)[1].absoluteDate)) = c.args.date
    [] c.op = "set-recurrence" ->
         /\ Len(r.recurrenceRules) = 1
         /\ r.recurrenceRules[1].frequency = lowercased(c.args.frequency)
         /\ r.recurrenceRules[1].interval = c.args.interval
         /\ r.recurrenceRules[1].recurrenceEnd =
              IF IsSome(c.args.endCount)
              THEN Some(EndAfterCount(Get(c.args.endCount))) ELSE None
    [] c.op = "set-location" ->
         LocationAlarmsOf(r) =
           << LocationAlarm(StructuredLocation(c.args.place.title,
                                               c.args.place.latitude,
                                               c.args.place.longitude,
                                               c.args.place.radius),
                            lowercased(c.args.proximity)) >>

(* the alarms or rules of reminder r of the kind operation op sets *)
KindSetBy(op, r) ==
  CASE op = "set-remind-date" -> TimeAlarmsOf(r)
    [] op = "set-recurrence" -> r.recurrenceRules
    [] op = "set-location" -> LocationAlarmsOf(r)

(* C30 as stated, for any two invocations on the same reminder: in every   *)
(* interleaving the reminder has at most one alarm of each kind and one    *)
(* rule, and once both have ended the alarm or rule that survives, of a    *)
(* kind that an invocation which saved has set, is the one asked for by    *)
(* one of the two.                                                         *)
C30_AsStated ==
  /\ AtMostOneOfEach(store)
  /\ BothDone =>
       \A p \in Procs :
         Saved(p) =>
           LET r == store[calls[p].li].reminders[calls[p].ri]
               op == Get(calls[p].call).op
           IN KindSetBy(op, r) # <<>> =>
                \E q \in Procs :
                  /\ Get(calls[q].call).op = op
                  /\ Requested(Get(calls[q].call), r)

(* C30: with two invocations on the same reminder, each fetching its own   *)
(* copy and saving it whole, in every interleaving of their fetches and    *)
(* saves the reminder has at most one time alarm, one alarm with a         *)
(* location and one rule; once both have ended and one has saved, the      *)
(* stored reminder is the copy of an invocation that saved, and when the   *)
(* two are invocations of the same operation the surviving alarm or rule   *)
(* is the one asked for by one of them that saved; when they are           *)
(* invocations of different operations, what the stored copy carries of    *)
(* the kind the other invocation set is what its owner had fetched.        *)
C30_LastSaveWins ==
  /\ AtMostOneOfEach(store)
  /\ BothDone =>
       \A p \in Procs :
         Saved(p) =>
           LET r == store[calls[p].li].reminders[calls[p].ri]
           IN /\ \E q \in Procs : Saved(q) /\ r = Get(calls[q].copy)
              /\ (\A q \in Procs :
                    Get(calls[q].call).op = Get(calls[p].call).op) =>
                   \E q \in Procs : Saved(q) /\ Requested(Get(calls[q].call), r)
              /\ \A q \in Procs :
                   (/\ Saved(q)
                    /\ Get(calls[q].call).op # Get(calls[p].call).op
                    /\ r = Get(calls[q].copy)) =>
                     KindSetBy(Get(calls[p].call).op, r) =
                       KindSetBy(Get(calls[p].call).op, Get(calls[q].seen))

(* two set-remind-date invocations for different dates on a reminder       *)
(* without alarms, both fetched before either saved, both saved: one time  *)
(* alarm is left, for the date of one of them                              *)
C30_Witness ==
  /\ BothDone
  /\ \A p \in Procs :
       /\ Saved(p)
       /\ Get(calls[p].call).op = "set-remind-date"
       /\ calls[p].seen = Some(Plain("b"))
  /\ Get(calls[1].call).args.date # Get(calls[2].call).args.date
  /\ Len(TimeAlarmsOf(store[1].reminders[1])) = 1
  /\ \E p \in Procs : Requested(Get(calls[p].call), store[1].reminders[1])

====
